---- MODULE Spec2Model ----
(***************************************************************************)
(* A model of the fetch layer of solved-scraper: class Scraper of          *)
(* scraper.py (the Tor port pool, the NEWNYM rotation, the per-attempt     *)
(* requests session with the BlockAll cookie policy, and the retry loop of *)
(* get_content) together with the consumer loop of scout24_scraper.py that *)
(* calls it once per URL.                                                  *)
(*                                                                         *)
(* Every thread t that runs get_content has a program counter th[t].pc     *)
(* named after the source line it is about to execute (L61 = scraper.py    *)
(* line 61).  The Scraper object's attributes (ports, session, the         *)
(* configuration) are shared by all threads that use the object.  Under    *)
(* Spec one thread uses the object; under SpecShared two threads do.       *)
(*                                                                         *)
(* Durations (uniform(0, max_extra_wait), request_timeout) are modelled on *)
(* the integer grid.                                                       *)
(***************************************************************************)
EXTENDS Integers, Sequences, FiniteSets, TLC

VARIABLES
    ports,             \* self.ports: the pool, a Python list (pop() takes the last)
    session,           \* self.session: id of the current session object, 0 = attribute not set
    sessions,          \* the session objects constructed so far, by id
    max_trys,          \* self.max_trys
    max_extra_wait,    \* self.max_extra_wait
    request_timeout,   \* self.request_timeout
    newnym_available,  \* what controller.is_newnym_available() answers right now
    hist,              \* totals since construction of the Scraper, and the
                       \* endpoints handed out since the last refill (batch)
    th                 \* per thread: position, locals of the running call, its counters

vars == <<ports, session, sessions, max_trys, max_extra_wait, request_timeout,
          newnym_available, hist, th>>

config == <<max_trys, max_extra_wait, request_timeout>>

-----------------------------------------------------------------------------
(* Program constants and bounds *)

PORTS == <<9050, 9052, 9053, 9054>>

\* bounds of the model
MaxTrys == 3
MaxJitter == 1
MaxTimeout == 1
MaxCalls == 3
MaxHops == 1
MaxLeft == 1

Threads == {1, 2}

\* HTTP statuses a response may carry; 301 is a redirect that requests follows
Statuses == {200, 301, 304, 404, 503}

Contents == {"bytes", "empty"}

-----------------------------------------------------------------------------
(* The cookie policy *)

\* a policy whose set_ok accepts
BlockAll_set_ok_Accept == TRUE

\* BlockAll.set_ok: may a cookie of a response be stored
BlockAll_set_ok == FALSE

\* BlockAll.return_ok: may a stored cookie be sent with a request
BlockAll_return_ok == FALSE

\* policy "default" is the DefaultCookiePolicy a new requests session carries
set_ok(policy) == IF policy = "blockall" THEN BlockAll_set_ok ELSE TRUE

return_ok(policy) == IF policy = "blockall" THEN BlockAll_return_ok ELSE TRUE

\* the Cookie header a request through session object s carries
CookieHeader(s) == IF return_ok(s.policy) THEN s.cookies ELSE {}

\* the cookie jar of session object s after a response
ExtractCookies(s, setCookie) ==
    IF setCookie /\ set_ok(s.policy) THEN s.cookies \cup {"c"} ELSE s.cookies

\* response.raise_for_status(): HTTPError for 4xx and 5xx
RaisesHTTPError(status) == status >= 400 /\ status < 600

-----------------------------------------------------------------------------
(* State after construction *)

\* the per-call part of a thread's record, as get_content starts
FreshCall ==
    [i |-> 0, jit |-> -1, result |-> "pending", exc |-> "none", port |-> 0,
     mine |-> 0, used |-> 0, hops |-> 0, sent |-> {},
     setCookies |-> 0, snapH |-> 0, snapR |-> 0, overRefill |-> FALSE,
     acquires |-> 0, attempts |-> 0, cooldowns |-> 0, slept |-> 0,
     rotations |-> 0, handouts |-> 0, errHttp |-> 0, errOther |-> 0,
     logError |-> 0, logInfo |-> 0, logWait |-> 0, lastInfo |-> 0,
     authd |-> FALSE, signals |-> 0, sawEmpty |-> FALSE, firstOk |-> 0,
     status |-> 0]

FreshThread == [pc |-> "idle", calls |-> 0, failed |-> 0, done |-> 0] @@ FreshCall

\* a session object as requests.session() returns it
NewSessionObject == [policy |-> "default", proxy |-> 0, cookies |-> {}, uses |-> 0]

\* Scraper.__init__
ScraperInit ==
    /\ ports = PORTS
    /\ session = 0
    /\ sessions = <<>>
    /\ max_trys \in -1 .. MaxTrys
    /\ max_extra_wait \in 0 .. MaxJitter
    /\ request_timeout \in 1 .. MaxTimeout
    /\ hist = [acquires |-> 0, rotations |-> 0, refills |-> 0, handouts |-> 0,
               batch |-> {}]

Init ==
    /\ ScraperInit
    /\ newnym_available \in BOOLEAN
    /\ th = [t \in Threads |-> FreshThread]

\* the Scraper after n acquires of one thread, each followed by one request:
\* the state in which a second thread starts to use the object as well
\* (InitShared: with at most MaxLeft endpoints left in the pool, each thread
\* fetching one URL with one attempt)
UsedScraper(n) ==
    /\ ports = SubSeq(PORTS, 1, Len(PORTS) - n)
    /\ sessions = [j \in 1 .. n |->
                     [policy |-> "blockall", proxy |-> PORTS[Len(PORTS) + 1 - j],
                      cookies |-> {}, uses |-> 1]]
    /\ session = n
    /\ hist = [acquires |-> n, rotations |-> 0, refills |-> 0, handouts |-> n,
               batch |-> {PORTS[Len(PORTS) + 1 - j] : j \in 1 .. n}]

InitShared ==
    /\ \E n \in Len(PORTS) - MaxLeft .. Len(PORTS) : UsedScraper(n)
    /\ max_trys = 1
    /\ max_extra_wait = 0
    /\ request_timeout = 1
    /\ newnym_available \in BOOLEAN
    /\ th = [t \in Threads |-> [FreshThread EXCEPT !.calls = MaxCalls - 1]]

-----------------------------------------------------------------------------
(* get_content *)

\* a call that starts from a full pool of its own
StartCallFreshPool(t) ==
    /\ th[t].pc = "idle"
    /\ th[t].calls < MaxCalls
    /\ ports' = PORTS
    /\ th' = [th EXCEPT ![t] = [pc |-> "L61", calls |-> @.calls + 1,
                                 failed |-> @.failed, done |-> @.done] @@ FreshCall]
    /\ UNCHANGED <<session, sessions, config, newnym_available, hist>>

\* the consumer calls scraper.get_content(url)
StartCall(t) ==
    /\ th[t].pc = "idle"
    /\ th[t].calls < MaxCalls
    /\ th' = [th EXCEPT ![t] = [pc |-> "L61", calls |-> @.calls + 1,
                                 failed |-> @.failed, done |-> @.done] @@ FreshCall]
    /\ UNCHANGED <<ports, session, sessions, config, newnym_available, hist>>

\* a draw that may exceed the configured maximum
JitterOver(t) ==
    /\ th[t].pc = "L61"
    /\ \E d \in 0 .. max_extra_wait + 1 :
          th' = [th EXCEPT ![t].jit = d, ![t].pc = "L63"]
    /\ UNCHANGED <<ports, session, sessions, config, newnym_available, hist>>

\* line 61: sleep(uniform(0, self.max_extra_wait))
Jitter(t) ==
    /\ th[t].pc = "L61"
    /\ \E d \in 0 .. max_extra_wait :
          th' = [th EXCEPT ![t].jit = d, ![t].pc = "L63"]
    /\ UNCHANGED <<ports, session, sessions, config, newnym_available, hist>>

\* a loop that makes one attempt more: range(0, self.max_trys + 1)
ForLoopFromZero(t) ==
    /\ th[t].pc = "L63"
    /\ IF th[t].i <= max_trys
          THEN /\ th' = [th EXCEPT ![t].i = @ + 1, ![t].acquires = @ + 1,
                                   ![t].pc = "L54"]
               /\ hist' = [hist EXCEPT !.acquires = @ + 1]
          ELSE /\ th' = [th EXCEPT ![t].result = "None", ![t].pc = "returned"]
               /\ UNCHANGED hist
    /\ UNCHANGED <<ports, session, sessions, config, newnym_available>>

\* line 63: for i in range(1, self.max_trys + 1); line 64 calls get_tor_session.
\* Falling off the loop returns None.
ForLoop(t) ==
    /\ th[t].pc = "L63"
    /\ IF th[t].i < max_trys
          THEN /\ th' = [th EXCEPT ![t].i = @ + 1, ![t].acquires = @ + 1,
                                   ![t].pc = "L54"]
               /\ hist' = [hist EXCEPT !.acquires = @ + 1]
          ELSE /\ th' = [th EXCEPT ![t].result = "None", ![t].pc = "returned"]
               /\ UNCHANGED hist
    /\ UNCHANGED <<ports, session, sessions, config, newnym_available>>

\* an exception leaves get_content: nothing in the call catches it
Raise(t, e) == th' = [th EXCEPT ![t].exc = e, ![t].result = "raised", ![t].pc = "raised"]

-----------------------------------------------------------------------------
(* get_tor_session, renew_tor_ip, set_tor_session *)

\* what the thread saw of the pool when it tested it
Tested(r, empty) ==
    [r EXCEPT !.sawEmpty = empty, !.snapH = hist.handouts, !.snapR = hist.refills,
              !.authd = FALSE, !.signals = 0]

\* a test that already rotates when one endpoint is left
GetTorSessionCheckEarly(t) ==
    /\ th[t].pc = "L54"
    /\ IF Len(ports) <= 1
          THEN th' = [th EXCEPT ![t] = [Tested(th[t], TRUE) EXCEPT !.pc = "L42"]]
          ELSE th' = [th EXCEPT ![t] = [Tested(th[t], FALSE) EXCEPT !.pc = "L58"]]
    /\ UNCHANGED <<ports, session, sessions, config, newnym_available, hist>>

\* no test at all: the pool is popped whatever it holds
GetTorSessionCheckNever(t) ==
    /\ th[t].pc = "L54"
    /\ th' = [th EXCEPT ![t] = [Tested(th[t], FALSE) EXCEPT !.pc = "L58"]]
    /\ UNCHANGED <<ports, session, sessions, config, newnym_available, hist>>

\* line 54: if not self.ports
GetTorSessionCheck(t) ==
    /\ th[t].pc = "L54"
    /\ IF ports = <<>>
          THEN th' = [th EXCEPT ![t] = [Tested(th[t], TRUE) EXCEPT !.pc = "L42"]]
          ELSE th' = [th EXCEPT ![t] = [Tested(th[t], FALSE) EXCEPT !.pc = "L58"]]
    /\ UNCHANGED <<ports, session, sessions, config, newnym_available, hist>>

\* a rotation that swallows the connection error and lets the refill go on
ConnectSwallows(t) ==
    /\ th[t].pc = "L42"
    /\ \/ th' = [th EXCEPT ![t].pc = "L43"]
       \/ th' = [th EXCEPT ![t].pc = "L56"]
    /\ UNCHANGED <<ports, session, sessions, config, newnym_available, hist>>

\* line 42: Controller.from_port(port=9051), which raises when the control
\* port cannot be reached
Connect(t) ==
    /\ th[t].pc = "L42"
    /\ \/ th' = [th EXCEPT ![t].pc = "L43"]
       \/ Raise(t, "SocketError")
    /\ UNCHANGED <<ports, session, sessions, config, newnym_available, hist>>

\* line 43: controller.authenticate(password=self.password)
Authenticate(t) ==
    /\ th[t].pc = "L43"
    /\ \/ th' = [th EXCEPT ![t].pc = "L45", ![t].authd = TRUE]
       \/ Raise(t, "AuthenticationFailure")
    /\ UNCHANGED <<ports, session, sessions, config, newnym_available, hist>>

\* lines 45-46: log the wait when a new identity is not permitted yet
LogNewnymWait(t) ==
    /\ th[t].pc = "L45"
    /\ IF ~newnym_available
          THEN th' = [th EXCEPT ![t].pc = "L48", ![t].logWait = @ + 1]
          ELSE th' = [th EXCEPT ![t].pc = "L48"]
    /\ UNCHANGED <<ports, session, sessions, config, newnym_available, hist>>

\* no wait for the permission
WaitNewnymNoWait(t) ==
    /\ th[t].pc = "L48"
    /\ th' = [th EXCEPT ![t].pc = "L51"]
    /\ UNCHANGED <<ports, session, sessions, config, newnym_available, hist>>

\* lines 48-49: while not controller.is_newnym_available(): pass
WaitNewnym(t) ==
    /\ th[t].pc = "L48"
    /\ IF newnym_available
          THEN th' = [th EXCEPT ![t].pc = "L51"]
          ELSE UNCHANGED th
    /\ UNCHANGED <<ports, session, sessions, config, newnym_available, hist>>

\* line 51: controller.signal(Signal.NEWNYM); Tor then withholds the next
\* permission for a while
SignalNewnym(t) ==
    /\ th[t].pc = "L51"
    /\ \/ /\ th' = [th EXCEPT ![t].pc = "L56", ![t].signals = @ + 1,
                              ![t].rotations = @ + 1]
          /\ hist' = [hist EXCEPT !.rotations = @ + 1]
          /\ newnym_available' = FALSE
       \/ /\ Raise(t, "ControllerError")
          /\ UNCHANGED <<hist, newnym_available>>
    /\ UNCHANGED <<ports, session, sessions, config>>

\* a refill that puts back one endpoint only
RefillPartial(t) ==
    /\ th[t].pc = "L56"
    /\ ports' = Append(ports, PORTS[1])
    /\ hist' = [hist EXCEPT !.refills = @ + 1, !.batch = {}]
    /\ th' = [th EXCEPT ![t].pc = "L58", ![t].overRefill = (ports # <<>>)]
    /\ UNCHANGED <<session, sessions, config, newnym_available>>

\* line 56: self.ports = PORTS[:]
Refill(t) ==
    /\ th[t].pc = "L56"
    /\ ports' = PORTS
    /\ hist' = [hist EXCEPT !.refills = @ + 1, !.batch = {}]
    /\ th' = [th EXCEPT ![t].pc = "L58", ![t].overRefill = (ports # <<>>)]
    /\ UNCHANGED <<session, sessions, config, newnym_available>>

\* line 58: self.ports.pop(), which raises IndexError on an empty list
Pop(t) ==
    /\ th[t].pc = "L58"
    /\ IF ports = <<>>
          THEN /\ Raise(t, "IndexError")
               /\ UNCHANGED <<ports, hist>>
          ELSE /\ ports' = SubSeq(ports, 1, Len(ports) - 1)
               /\ th' = [th EXCEPT ![t].port = ports[Len(ports)], ![t].pc = "L34",
                                   ![t].handouts = @ + 1]
               /\ hist' = [hist EXCEPT !.handouts = @ + 1,
                                        !.batch = @ \cup {ports[Len(ports)]}]
    /\ UNCHANGED <<session, sessions, config, newnym_available>>

\* a session that is constructed once and kept for the later attempts
NewSessionReuse(t) ==
    /\ th[t].pc = "L34"
    /\ IF session = 0
          THEN /\ sessions' = Append(sessions, NewSessionObject)
               /\ session' = Len(sessions) + 1
               /\ th' = [th EXCEPT ![t].mine = Len(sessions) + 1, ![t].pc = "L35"]
          ELSE /\ UNCHANGED <<session, sessions>>
               /\ th' = [th EXCEPT ![t].mine = session, ![t].pc = "L35"]
    /\ UNCHANGED <<ports, config, newnym_available, hist>>

\* line 34: self.session = requests.session()
NewSession(t) ==
    /\ th[t].pc = "L34"
    /\ sessions' = Append(sessions, NewSessionObject)
    /\ session' = Len(sessions) + 1
    /\ th' = [th EXCEPT ![t].mine = Len(sessions) + 1, ![t].pc = "L35"]
    /\ UNCHANGED <<ports, config, newnym_available, hist>>

\* line 35: self.session.cookies.set_policy(BlockAll())
SetPolicy(t) ==
    /\ th[t].pc = "L35"
    /\ sessions' = [sessions EXCEPT ![session].policy = "blockall"]
    /\ th' = [th EXCEPT ![t].pc = "L36"]
    /\ UNCHANGED <<ports, session, config, newnym_available, hist>>

\* lines 36-39: self.session.proxies = {... localhost:port ...}
SetProxies(t) ==
    /\ th[t].pc = "L36"
    /\ sessions' = [sessions EXCEPT ![session].proxy = th[t].port]
    /\ th' = [th EXCEPT ![t].pc = "L71"]
    /\ UNCHANGED <<ports, session, config, newnym_available, hist>>

-----------------------------------------------------------------------------
(* the request of one attempt *)

\* where a response of this status leads: a redirect is followed inside
\* session.get; line 73, response.raise_for_status(), raises HTTPError into the
\* handler of line 74 or lets the else branch of line 82 run
AfterResponse(status) ==
    IF status = 301 THEN "L71r"
    ELSE IF RaisesHTTPError(status) THEN "L75" ELSE "L83"

\* one HTTP exchange through session object s: the request is sent with the
\* jar's Cookie header; it fails in transport, is redirected, or is answered
Exchange(t, s, first) ==
    LET base == [th[t] EXCEPT !.used = s, !.sent = CookieHeader(sessions[s]),
                              !.attempts = IF first THEN @ + 1 ELSE @,
                              !.hops = IF first THEN 0 ELSE @ + 1]
    IN \/ /\ th' = [th EXCEPT ![t] = [base EXCEPT !.pc = "L78"]]
          /\ sessions' = IF first THEN [sessions EXCEPT ![s].uses = @ + 1] ELSE sessions
       \/ \E status \in Statuses, setCookie \in BOOLEAN :
             /\ status = 301 => base.hops < MaxHops
             /\ sessions' = [sessions EXCEPT
                               ![s].uses = IF first THEN @ + 1 ELSE @,
                               ![s].cookies = ExtractCookies(sessions[s], setCookie)]
             /\ th' = [th EXCEPT ![t] =
                         [base EXCEPT !.setCookies =
                                          IF setCookie /\ status = 301 THEN 1 ELSE @,
                                      !.firstOk =
                                          IF status = 301 \/ RaisesHTTPError(status)
                                             THEN @ ELSE base.i,
                                      !.status =
                                          IF status = 301 \/ RaisesHTTPError(status)
                                             THEN @ ELSE status,
                                      !.pc = AfterResponse(status)]]

\* lines 67-73: self.session.get(url, headers=..., timeout=self.request_timeout)
\* and response.raise_for_status()
Request(t) ==
    /\ th[t].pc = "L71"
    /\ Exchange(t, session, TRUE)
    /\ UNCHANGED <<ports, session, config, newnym_available, hist>>

\* inside session.get: the redirect is followed with the same session object
FollowRedirect(t) ==
    /\ th[t].pc = "L71r"
    /\ Exchange(t, th[t].used, FALSE)
    /\ UNCHANGED <<ports, session, config, newnym_available, hist>>

\* session.get is over: the locals of the exchange are gone
Exchanged(r) ==
    [r EXCEPT !.hops = 0, !.sent = {}, !.setCookies = 0,
              !.port = 0, !.mine = 0, !.used = 0,
              !.sawEmpty = FALSE, !.snapH = 0, !.snapR = 0, !.overRefill = FALSE,
              !.authd = FALSE, !.signals = 0, !.status = 0]

\* a handler that logs and goes on at once, without the cooldown sleep
HandlerNoSleep(r) ==
    [r EXCEPT !.logError = @ + 1, !.logInfo = @ + 1, !.lastInfo = r.i,
              !.pc = "L63"]

\* the body both handlers share: error event, wait event with the attempt
\* index, sleep(self.request_timeout)
Handler(r) ==
    [r EXCEPT !.logError = @ + 1, !.logInfo = @ + 1, !.lastInfo = r.i,
              !.cooldowns = @ + 1, !.slept = request_timeout, !.pc = "L63"]

\* a handler that treats an HTTP-status error as final: no retry
ExceptHTTPErrorGivesUp(t) ==
    /\ th[t].pc = "L75"
    /\ th' = [th EXCEPT ![t] = [Exchanged(th[t]) EXCEPT !.errHttp = @ + 1,
                                                      !.logError = @ + 1,
                                                      !.result = "None",
                                                      !.pc = "returned"]]
    /\ UNCHANGED <<ports, session, sessions, config, newnym_available, hist>>

\* lines 74-77: except HTTPError
ExceptHTTPError(t) ==
    /\ th[t].pc = "L75"
    /\ th' = [th EXCEPT ![t] = [Handler(Exchanged(th[t])) EXCEPT !.errHttp = @ + 1]]
    /\ UNCHANGED <<ports, session, sessions, config, newnym_available, hist>>

\* a handler that puts the endpoint of the failed attempt back into the pool
ExceptExceptionPutsBack(t) ==
    /\ th[t].pc = "L78"
    /\ ports' = Append(ports, th[t].port)
    /\ th' = [th EXCEPT ![t] = [Handler(Exchanged(th[t])) EXCEPT !.errOther = @ + 1]]
    /\ UNCHANGED <<session, sessions, config, newnym_available, hist>>

\* lines 78-81: except Exception
ExceptException(t) ==
    /\ th[t].pc = "L78"
    /\ th' = [th EXCEPT ![t] = [Handler(Exchanged(th[t])) EXCEPT !.errOther = @ + 1]]
    /\ UNCHANGED <<ports, session, sessions, config, newnym_available, hist>>

\* an else branch that does not return: the loop goes on
ReturnContentContinues(t) ==
    /\ th[t].pc = "L83"
    /\ th' = [th EXCEPT ![t].pc = "L63"]
    /\ UNCHANGED <<ports, session, sessions, config, newnym_available, hist>>

\* lines 82-83: else: return response.content
ReturnContent(t) ==
    /\ th[t].pc = "L83"
    /\ \E c \in Contents :
          th' = [th EXCEPT ![t] = [Exchanged(th[t]) EXCEPT !.result = c,
                                                          !.pc = "returned"]]
    /\ UNCHANGED <<ports, session, sessions, config, newnym_available, hist>>

-----------------------------------------------------------------------------
(* the consumer loop of Scout24Scraper.scrape *)

\* content is None: count the URL as failed and continue with the next one
ConsumerNext(t) ==
    /\ th[t].pc = "returned"
    /\ th' = [th EXCEPT ![t] =
                [pc |-> "idle", calls |-> @.calls, done |-> @.done + 1,
                 failed |-> IF @.result = "None" THEN @.failed + 1 ELSE @.failed]
                @@ FreshCall]
    /\ UNCHANGED <<ports, session, sessions, config, newnym_available, hist>>

\* an exception out of get_content is caught nowhere: the process ends
ConsumerCrash(t) ==
    /\ th[t].pc = "raised"
    /\ th' = [th EXCEPT ![t].pc = "crashed"]
    /\ UNCHANGED <<ports, session, sessions, config, newnym_available, hist>>

-----------------------------------------------------------------------------
(* the Tor daemon *)

\* the rate limit on new identities expires
NewnymPermitted ==
    /\ ~newnym_available
    /\ newnym_available' = TRUE
    /\ UNCHANGED <<ports, session, sessions, config, hist, th>>

-----------------------------------------------------------------------------

Step(t) ==
    \/ StartCall(t)
    \/ Jitter(t)
    \/ ForLoop(t)
    \/ GetTorSessionCheck(t)
    \/ Connect(t)
    \/ Authenticate(t)
    \/ LogNewnymWait(t)
    \/ WaitNewnym(t)
    \/ SignalNewnym(t)
    \/ Refill(t)
    \/ Pop(t)
    \/ NewSession(t)
    \/ SetPolicy(t)
    \/ SetProxies(t)
    \/ Request(t)
    \/ FollowRedirect(t)
    \/ ExceptHTTPError(t)
    \/ ExceptException(t)
    \/ ReturnContent(t)
    \/ ConsumerNext(t)
    \/ ConsumerCrash(t)

\* one thread uses the Scraper
Next == Step(1) \/ NewnymPermitted

Spec == Init /\ [][Next]_vars

\* the thread keeps running, and the rate limit of the Tor daemon expires
SpecLive == Spec /\ WF_vars(Step(1)) /\ WF_vars(NewnymPermitted)

\* two threads use one Scraper, without locking
NextShared == (\E t \in Threads : Step(t)) \/ NewnymPermitted

SpecShared == InitShared /\ [][NextShared]_vars

-----------------------------------------------------------------------------
(* Properties *)

Finished(t) == th[t].pc \in {"returned", "raised"}

RenewPcs == {"L42", "L43", "L45", "L48", "L51", "L56"}

ControlErrors == {"SocketError", "AuthenticationFailure", "ControllerError"}

\* C1: for max_trys = N >= 1, a fetch whose request attempts all fail with an
\* HTTP-status or transport error makes exactly N attempts and returns None.
C1_AllFailThenNone ==
    \A t \in Threads :
        (Finished(t) /\ max_trys >= 1 /\ th[t].attempts >= 1 /\ th[t].firstOk = 0
            /\ th[t].errHttp + th[t].errOther = th[t].attempts)
        => (th[t].attempts = max_trys /\ th[t].result = "None")

\* C2: when attempt k is the first to succeed, the call returns a payload,
\* exactly k acquires, k requests and k-1 cooldowns happened in it, and after
\* the success nothing but the return happens: no request, acquire, rotation
\* or cooldown, and the pool is left alone.
C2_AtSuccess ==
    \A t \in Threads :
        th[t].firstOk # 0 =>
            /\ th[t].pc \in {"L83", "returned"}
            /\ th[t].i = th[t].firstOk
            /\ th[t].acquires = th[t].firstOk
            /\ th[t].handouts = th[t].firstOk
            /\ th[t].attempts = th[t].firstOk
            /\ th[t].cooldowns = th[t].firstOk - 1
            /\ th[t].pc = "returned" => th[t].result \in Contents

C2_AfterSuccess ==
    \A t \in Threads :
        (th[t].pc = "L83" /\ th'[t] # th[t]) =>
            /\ th'[t].pc = "returned"
            /\ th'[t].result \in Contents
            /\ th'[t].attempts = th[t].attempts
            /\ th'[t].acquires = th[t].acquires
            /\ th'[t].rotations = th[t].rotations
            /\ th'[t].cooldowns = th[t].cooldowns
            /\ ports' = ports /\ session' = session /\ hist' = hist

C2_SuccessReturnsAtOnce == [](C2_AtSuccess) /\ [][C2_AfterSuccess]_vars

C2_Witness ==
    \E t \in Threads :
        th[t].pc = "returned" /\ th[t].firstOk >= 2 /\ th[t].result \in Contents

\* C3: a control-channel error raised while an endpoint is acquired never
\* leaves get_content as an exception.
C3_NoExceptionCrossesFetch ==
    \A t \in Threads : th[t].exc \in ControlErrors => th[t].result # "raised"

\* C4: a fetch whose N >= 1 attempts all fail returns None after exactly N
\* attempts and exactly N-1 cooldown waits.
C4_CooldownsBetweenAttempts ==
    \A t \in Threads :
        (th[t].pc = "returned" /\ th[t].result = "None" /\ max_trys >= 1)
        => (th[t].attempts = max_trys /\ th[t].cooldowns = max_trys - 1)

\* C5: on a fresh pool the first Len(PORTS) acquires trigger no rotation; the
\* next acquire triggers one, which is complete before its endpoint is handed
\* out: one rotation, between hand-out Len(PORTS) and hand-out Len(PORTS)+1.
C5_RotationAtDepletion ==
    /\ hist.acquires <= Len(PORTS) =>
          (hist.rotations = 0 /\ \A t \in Threads : th[t].pc \notin RenewPcs)
    /\ hist.rotations >= 1 => hist.handouts >= Len(PORTS)
    /\ hist.acquires = Len(PORTS) + 1 =>
          /\ hist.rotations <= 1
          /\ hist.handouts = Len(PORTS) + 1 => (hist.rotations = 1 /\ hist.refills = 1)
          /\ \A t \in Threads : th[t].pc = "L58" => hist.rotations = 1

C5_Witness == hist.handouts = Len(PORTS) + 1 /\ hist.rotations = 1

\* C6: the pool holds at most Len(PORTS) endpoints, all of the configured
\* list; it grows only by a refill, which happens on the empty pool, sets it
\* to the whole list, and directly follows a NEWNYM signal.
C6_PoolOfConfigured ==
    /\ Len(ports) <= Len(PORTS)
    /\ ports = SubSeq(PORTS, 1, Len(ports))
    /\ \A t \in Threads : th[t].pc = "L56" => th[t].signals = 1

C6_RefillStep ==
    /\ Len(ports') > Len(ports) =>
          /\ ports = <<>>
          /\ ports' = PORTS
          /\ hist.rotations = hist.refills + 1
          /\ hist'.refills = hist.rotations
    /\ \A t \in Threads :
          (th'[t].pc = "L56" /\ th[t].pc # "L56") =>
              (th[t].pc = "L51" /\ hist'.rotations = hist.rotations + 1)
    /\ hist'.refills > hist.refills => \E t \in Threads : th[t].pc = "L56"

C6_RefillWholeWhenEmpty == [](C6_PoolOfConfigured) /\ [][C6_RefillStep]_vars

C6_Witness ==
    hist.refills >= 1 /\ ports = PORTS /\ \E t \in Threads : th[t].pc = "L58"

\* C7: a call of renew_tor_ip that returns has sent exactly one NEWNYM signal,
\* after authentication, at a moment when is_newnym_available() is true; as
\* long as it is false the call neither signals nor returns.
C7_OneSignalPerReturn ==
    \A t \in Threads :
        /\ th[t].pc = "L56" => (th[t].signals = 1 /\ th[t].authd)
        /\ th[t].pc \in RenewPcs \ {"L56"} => th[t].signals = 0
        /\ th[t].pc \in {"L45", "L48", "L51"} => th[t].authd

C7_SignalStep ==
    /\ hist'.rotations > hist.rotations =>
          (newnym_available /\ hist'.rotations = hist.rotations + 1
             /\ \E t \in Threads : th[t].pc = "L51" /\ th[t].authd)
    /\ \A t \in Threads :
          (th[t].pc = "L48" /\ ~newnym_available) =>
              (th'[t].pc = "L48" /\ hist'.rotations = hist.rotations)

C7_SignalWhenPermitted == [](C7_OneSignalPerReturn) /\ [][C7_SignalStep]_vars

C7_Witness ==
    \E t \in Threads : th[t].pc = "L56" /\ th[t].logWait >= 1 /\ th[t].signals = 1

\* C8: with two threads on one Scraper a refill can overwrite a pool that is
\* not empty (two rotations for one depletion), a pop can hit the empty list,
\* and a request can go through a session the thread did not construct; each
\* happens only when the other thread acted on the shared attribute between
\* this thread's test or construction and its use.
C8_AnomaliesAreRaces ==
    \A t \in Threads :
        /\ th[t].exc = "IndexError" => hist.handouts > th[t].snapH
        /\ th[t].overRefill =>
              (hist.refills >= th[t].snapR + 2 /\ hist.rotations >= 2)
        /\ (th[t].used # 0 /\ th[t].used # th[t].mine) => th[t].used > th[t].mine

C8_Witness ==
    \E t, u \in Threads :
        /\ t # u
        /\ th[u].overRefill
        /\ th[t].used # 0 /\ th[t].used # th[t].mine

\* the pop of a list the other thread has just emptied
C8_PopFromEmptied ==
    \E t \in Threads : th[t].exc = "IndexError" /\ ~th[t].sawEmpty

\* C9: the jitter delay of every fetch lies in [0, max_extra_wait]; it is 0
\* when max_extra_wait is 0.
C9_JitterInRange ==
    \A t \in Threads :
        th[t].pc \notin {"idle", "L61"} =>
            /\ th[t].jit >= 0 /\ th[t].jit <= max_extra_wait
            /\ max_extra_wait = 0 => th[t].jit = 0

C9_Witness ==
    \E t \in Threads :
        th[t].pc = "L63" /\ max_extra_wait >= 1 /\ th[t].jit = max_extra_wait

\* C10: the cookie jar of every session object is empty, and every request
\* is sent without a Cookie header, whatever Set-Cookie headers the responses
\* carried.
C10_NoCookieStored ==
    /\ \A s \in 1 .. Len(sessions) : sessions[s].cookies = {}
    /\ \A t \in Threads : th[t].sent = {}

\* a redirect response carried Set-Cookie and the request that follows it
\* went out through the same session object
C10_Witness ==
    \E t \in Threads :
        /\ th[t].pc \in {"L75", "L78", "L83"}
        /\ th[t].hops >= 1
        /\ th[t].setCookies = 1
        /\ sessions[th[t].used].policy = "blockall"

\* C11: every request attempt goes through the session object constructed in
\* that same attempt, whose proxy is the endpoint popped in that attempt, and no
\* session object carries the request of more than one attempt.
C11_FreshSessionPerAttempt ==
    /\ \A s \in 1 .. Len(sessions) : sessions[s].uses <= 1
    /\ \A t \in Threads :
          /\ th[t].pc = "L71" =>
                /\ session = th[t].mine
                /\ sessions[session].uses = 0
                /\ sessions[session].proxy = th[t].port
          /\ th[t].pc \in {"L71r", "L75", "L78", "L83"} =>
                /\ th[t].used = th[t].mine
                /\ th[t].mine = Len(sessions)
                /\ sessions[th[t].used].uses = 1
                /\ sessions[th[t].used].proxy = th[t].port
                /\ th[t].port \in {PORTS[j] : j \in 1 .. Len(PORTS)}

\* the second attempt of a later call has made its request
C11_Witness ==
    /\ th[1].pc = "L83"
    /\ th[1].calls >= 2
    /\ th[1].attempts = 2
    /\ Len(sessions) >= 3
    /\ th[1].used = Len(sessions)

\* C12: no endpoint is put back into the pool.  The pool changes only by a
\* refill or by the pop of an acquire, which takes exactly one endpoint, one
\* that was not handed out since the last refill; the handler of a failed
\* attempt leaves the pool alone.
C12_BatchAndPool ==
    /\ hist.batch \cap {ports[j] : j \in 1 .. Len(ports)} = {}
    /\ Cardinality(hist.batch) + Len(ports) = Len(PORTS)

C12_PoolStep ==
    /\ ports' # ports =>
          \/ /\ hist'.refills = hist.refills + 1
             /\ hist'.handouts = hist.handouts
          \/ /\ hist'.refills = hist.refills
             /\ hist'.handouts = hist.handouts + 1
             /\ ports' = SubSeq(ports, 1, Len(ports) - 1)
             /\ ports[Len(ports)] \notin hist.batch
             /\ hist'.batch = hist.batch \cup {ports[Len(ports)]}
    /\ hist'.handouts # hist.handouts => Len(ports') = Len(ports) - 1
    /\ \A t \in Threads :
          th[t].pc \in {"L75", "L78"} /\ th'[t].pc # th[t].pc => ports' = ports

C12_PoolOnlyShrinks == [](C12_BatchAndPool) /\ [][C12_PoolStep]_vars

\* after a refill, a failed attempt has been handled and its endpoint is still
\* out of the pool
C12_Witness ==
    /\ hist.refills = 1
    /\ Cardinality(hist.batch) = 2
    /\ th[1].pc = "L63"
    /\ th[1].cooldowns >= 1
    /\ Len(ports) = Len(PORTS) - 2

C14_Order ==
    [idle |-> {"L61"}, L61 |-> {"L63"}, L63 |-> {"L54", "returned"},
     L54 |-> {"L42", "L58"}, L42 |-> {"L43", "raised"}, L43 |-> {"L45", "raised"},
     L45 |-> {"L48"}, L48 |-> {"L51"}, L51 |-> {"L56", "raised"}, L56 |-> {"L58"},
     L58 |-> {"L34", "raised"}, L34 |-> {"L35"}, L35 |-> {"L36"}, L36 |-> {"L71"},
     L71 |-> {"L71r", "L75", "L78", "L83"}, L71r |-> {"L71r", "L75", "L78", "L83"},
     L75 |-> {"L63"}, L78 |-> {"L63"}, L83 |-> {"returned"},
     returned |-> {"idle"}, raised |-> {"crashed"}, crashed |-> {}]

C14_Positions ==
    \A t \in Threads :
        LET r == th[t]
        IN /\ r.pc \in {"idle", "L61"} => r.jit = -1 /\ r.acquires = 0
           /\ r.pc \notin {"idle", "L61"} => r.jit \in 0 .. max_extra_wait
           /\ r.pc \in {"L35", "L36", "L71"} =>
                 /\ r.acquires = r.i /\ r.handouts = r.i /\ r.attempts = r.i - 1
                 /\ r.mine # 0 /\ r.port # 0
           /\ r.pc \in {"L71r", "L75", "L78", "L83"} =>
                 r.acquires = r.i /\ r.handouts = r.i /\ r.attempts = r.i
           /\ r.cooldowns > 0 => r.slept = request_timeout

C14_Steps ==
    \A t \in Threads :
        /\ th'[t].pc # th[t].pc => th'[t].pc \in C14_Order[th[t].pc]
        /\ th'[t].jit # th[t].jit /\ th'[t].jit # -1 =>
              th[t].pc = "L61" /\ th[t].jit = -1
        /\ th'[t].acquires = th[t].acquires + 1 =>
              /\ th[t].attempts = th[t].acquires
              /\ th[t].cooldowns = th[t].acquires
              /\ th[t].acquires > 0 => th[t].slept = request_timeout
        /\ th'[t].attempts = th[t].attempts + 1 =>
              th[t].pc = "L71" /\ th[t].handouts = th[t].attempts + 1
        /\ th'[t].cooldowns = th[t].cooldowns + 1 =>
              th[t].pc \in {"L75", "L78"} /\ th'[t].pc = "L63"

C14_StepsInOrder == [](C14_Positions) /\ [][C14_Steps]_vars

\* the second acquire of a call begins, after the jitter and one cooldown
C14_Witness ==
    /\ th[1].pc = "L54"
    /\ th[1].i = 2
    /\ th[1].jit = MaxJitter
    /\ th[1].cooldowns = 1
    /\ th[1].slept = request_timeout

\* C15: every failed attempt emits an error event and a wait event that carries
\* its index, and a call that made all its attempts in vain emits one more
\* event, for the exhaustion, before it returns None.
C15_EventsOfRetry ==
    \A t \in Threads :
        /\ th[t].logError = th[t].cooldowns
        /\ th[t].logInfo = th[t].cooldowns
        /\ th[t].pc = "L63" /\ th[t].i > 0 => th[t].lastInfo = th[t].i

C15_RetryAndExhaustionLogged ==
    /\ C15_EventsOfRetry
    /\ \A t \in Threads :
          th[t].pc = "returned" /\ th[t].result = "None" /\ th[t].attempts >= 1 =>
              th[t].logError + th[t].logInfo > 2 * th[t].attempts

\* C16: a URL whose fetch does not succeed is counted as failed and the loop
\* goes on with the next URL: the consumer never ends on a fetch, and between
\* two URLs every URL started so far is done, the failed ones counted.
C16_FailedUrlSkipped ==
    \A t \in Threads :
        /\ th[t].pc # "crashed"
        /\ th[t].failed <= th[t].done
        /\ th[t].pc = "idle" => th[t].done = th[t].calls

\* C17: the pool lives as long as the Scraper.  Whenever the n >= 1 acquires
\* made since construction, over all calls, have all handed out their endpoint,
\* (n - 1) \div Len(PORTS) rotations have been signalled and the pool holds
\* Len(PORTS) - 1 - ((n - 1) % Len(PORTS)) endpoints.
C17_PoolPersistsAcrossCalls ==
    LET n == hist.acquires
        size == Len(PORTS)
    IN n >= 1 /\ hist.handouts = n =>
          /\ hist.rotations = (n - 1) \div size
          /\ hist.refills = hist.rotations
          /\ Len(ports) = size - 1 - ((n - 1) % size)

\* the sixth acquire, in the third call, after a call that failed
C17_Witness ==
    /\ hist.acquires = 6
    /\ hist.handouts = 6
    /\ th[1].calls = 3
    /\ th[1].failed >= 1
    /\ hist.rotations = 1
    /\ Len(ports) = 2

\* C18: when renew_tor_ip raises, the acquire that called it leaves the pool
\* empty, hands out no endpoint and installs no session: self.session is still
\* the object of the previous attempt.  The raising step changes neither pool
\* nor session, the pool is refilled only after a NEWNYM signal that was sent,
\* and so no endpoint of a further batch is handed out without its rotation.
C18_AtRotationError ==
    /\ hist.refills <= hist.rotations
    /\ hist.handouts <= Len(PORTS) * (hist.rotations + 1)
    /\ \A t \in Threads :
          th[t].pc = "raised" /\ th[t].exc \in ControlErrors =>
              /\ th[t].sawEmpty
              /\ ports = <<>>
              /\ th[t].port = 0
              /\ th[t].mine = 0
              /\ th[t].handouts = th[t].acquires - 1
              /\ hist.refills = th[t].snapR
              /\ session = Len(sessions)
              /\ Len(sessions) = hist.handouts
              /\ sessions[session].uses = 1

C18_RaiseStep ==
    \A t \in Threads :
        /\ th'[t].pc = "raised" /\ th[t].pc # "raised" =>
              /\ th[t].pc \in RenewPcs
              /\ UNCHANGED <<ports, session, sessions, hist>>
        \* an acquire that finds the pool empty attempts the rotation
        /\ th[t].pc = "L54" /\ ports = <<>> /\ th'[t].pc # "L54" =>
              th'[t].pc = "L42"

C18_FailedRotationChangesNothing == [](C18_AtRotationError) /\ [][C18_RaiseStep]_vars

\* the NEWNYM signal of the fifth acquire raises
C18_Witness ==
    /\ th[1].pc = "raised"
    /\ th[1].exc = "ControllerError"
    /\ ports = <<>>
    /\ session = Len(PORTS)
    /\ hist.acquires = Len(PORTS) + 1

\* C19: with max_trys <= 0 a call of get_content takes the jitter sleep and
\* returns None; no acquire, no rotation, no request and no cooldown is ever
\* made, and the pool stays as constructed.
C19_NoAttemptWithoutBudget ==
    max_trys <= 0 =>
        /\ ports = PORTS
        /\ session = 0
        /\ sessions = <<>>
        /\ hist.acquires = 0 /\ hist.rotations = 0
        /\ hist.refills = 0 /\ hist.handouts = 0
        /\ \A t \in Threads :
              /\ th[t].pc \in {"idle", "L61", "L63", "returned"}
              /\ th[t].acquires = 0 /\ th[t].attempts = 0
              /\ th[t].rotations = 0 /\ th[t].cooldowns = 0
              /\ th[t].logError = 0 /\ th[t].logInfo = 0
              /\ th[t].pc = "returned" =>
                    th[t].result = "None" /\ th[t].jit \in 0 .. max_extra_wait

\* the second call on a Scraper without attempt budget has returned
C19_Witness ==
    /\ max_trys <= 0
    /\ th[1].pc = "returned"
    /\ th[1].result = "None"
    /\ th[1].jit = MaxJitter
    /\ th[1].calls = 2
    /\ th[1].failed = 1

\* C20: every call of get_content eventually returns, a payload or None, when
\* its requests end and the control channel reports that a new identity is
\* permitted: a call to which the permission has been reported (it is about to
\* send the signal of line 51) eventually returns.
C20_PermittedFetchReturns == (th[1].pc = "L51") ~> (th[1].pc = "returned")

====
